---- MODULE Spec2Model ----
(***************************************************************************)
(* Hub / BaseHub attach, detach and wait-for-device protocol of            *)
(* node-poweredup, with the connect() delegation to the BLE transport.     *)
(* BaseHub (hubs/basehub) and Hub (hubs/hub.ts) are modelled side by side  *)
(* and driven by the same notifications and calls.                         *)
(***************************************************************************)
EXTENDS Integers, Sequences, FiniteSets, TLC

(* ---------------- bounds ---------------- *)
MaxDevices == 2
MaxWaits == 2
MaxConnects == 3

(* ---------------- configuration of the hub model ---------------- *)
\* portMap handed to the constructor: "A" -> 0, "B" -> 1
PortMap == [A |-> 0, B |-> 1]
\* Object.keys(this._portMap), in insertion order
PortKeys == <<"A", "B">>
\* port names a caller may ask for ("C" is not a port of this hub)
PortNames == {"A", "B", "C"}
\* port ids the transport reports attach and detach notifications for
PortIds == {0, 1}
\* device type codes (Consts.DeviceType, by name) of the devices plugged in:
\* LIGHT has a decoder in both hubs, VOLTAGE_SENSOR only in BaseHub
AttachTypes == {"LIGHT", "VOLTAGE_SENSOR"}
\* device type codes without a decoder in either hub
UnregisteredTypes == {"UNKNOWN", "PIEZO_BUZZER", "CURRENT_SENSOR_V2", "NOT_A_DEVICE_TYPE"}

Undefined == "undefined"
\* no Device: the value of a missing table entry
Absent == [id |-> 0, portId |-> -1, type |-> Undefined, class |-> Undefined,
           modeMap |-> Undefined]

(* ---------------- decoder registries ---------------- *)
BaseHubDeviceConstructors ==
    [LIGHT |-> "Light",
     TRAIN_MOTOR |-> "TrainMotor",
     SIMPLE_MEDIUM_LINEAR_MOTOR |-> "SimpleMediumLinearMotor",
     MOVE_HUB_MEDIUM_LINEAR_MOTOR |-> "MoveHubMediumLinearMotor",
     MOTION_SENSOR |-> "MotionSensor",
     TILT_SENSOR |-> "TiltSensor",
     MOVE_HUB_TILT_SENSOR |-> "MoveHubTiltSensor",
     TECHNIC_MEDIUM_HUB_TILT_SENSOR |-> "TechnicMediumHubTiltSensor",
     TECHNIC_MEDIUM_HUB_GYRO_SENSOR |-> "TechnicMediumHubGyroSensor",
     TECHNIC_MEDIUM_HUB_ACCELEROMETER |-> "TechnicMediumHubAccelerometerSensor",
     MEDIUM_LINEAR_MOTOR |-> "MediumLinearMotor",
     TECHNIC_LARGE_LINEAR_MOTOR |-> "TechnicLargeLinearMotor",
     TECHNIC_XLARGE_LINEAR_MOTOR |-> "TechnicXLargeLinearMotor",
     COLOR_DISTANCE_SENSOR |-> "ColorDistanceSensor",
     VOLTAGE_SENSOR |-> "VoltageSensor",
     CURRENT_SENSOR |-> "CurrentSensor",
     REMOTE_CONTROL_BUTTON |-> "RemoteControlButton",
     HUB_LED |-> "HubLED",
     DUPLO_TRAIN_BASE_COLOR_SENSOR |-> "DuploTrainBaseColorSensor",
     DUPLO_TRAIN_BASE_MOTOR |-> "DuploTrainBaseMotor",
     DUPLO_TRAIN_BASE_SPEAKER |-> "DuploTrainBaseSpeaker",
     DUPLO_TRAIN_BASE_SPEEDOMETER |-> "DuploTrainBaseSpeedometer"]

HubDeviceConstructors ==
    [LIGHT |-> "Light",
     TRAIN_MOTOR |-> "TrainMotor",
     SIMPLE_MEDIUM_LINEAR_MOTOR |-> "SimpleMediumLinearMotor",
     MOVE_HUB_MEDIUM_LINEAR_MOTOR |-> "MoveHubMediumLinearMotor",
     MOTION_SENSOR |-> "MotionSensor",
     TILT_SENSOR |-> "TiltSensor",
     MEDIUM_LINEAR_MOTOR |-> "MediumLinearMotor",
     TECHNIC_LARGE_LINEAR_MOTOR |-> "TechnicLargeLinearMotor",
     TECHNIC_XLARGE_LINEAR_MOTOR |-> "TechnicXLargeLinearMotor",
     COLOR_DISTANCE_SENSOR |-> "ColorDistanceSensor"]

\* new constructor(this, portId): a decoder hands its own ModeMap and its own
\* device type to the Device constructor; id is the identity of the object
NewDecoder(class, deviceType, portId, id) ==
    [id |-> id, portId |-> portId, type |-> deviceType, class |-> class,
     modeMap |-> class]

\* new Device(this, portId, undefined, deviceType): no mode map
NewGenericDevice(deviceType, portId, id) ==
    [id |-> id, portId |-> portId, type |-> deviceType, class |-> "Device",
     modeMap |-> Undefined]

\* a _createDevice whose fallback forgets the device type it was given
BaseHubCreateDeviceDropsType(deviceType, portId, id) ==
    IF deviceType \in DOMAIN BaseHubDeviceConstructors
    THEN NewDecoder(BaseHubDeviceConstructors[deviceType], deviceType, portId, id)
    ELSE NewGenericDevice(Undefined, portId, id)

BaseHubCreateDevice(deviceType, portId, id) ==
    IF deviceType \in DOMAIN BaseHubDeviceConstructors
    THEN NewDecoder(BaseHubDeviceConstructors[deviceType], deviceType, portId, id)
    ELSE NewGenericDevice(deviceType, portId, id)

HubCreateDevice(deviceType, portId, id) ==
    IF deviceType \in DOMAIN HubDeviceConstructors
    THEN NewDecoder(HubDeviceConstructors[deviceType], deviceType, portId, id)
    ELSE NewGenericDevice(deviceType, portId, id)

(* ---------------- queries ---------------- *)
RECURSIVE FirstKeyFor(_, _)
FirstKeyFor(i, portId) ==
    IF i > Len(PortKeys) THEN Undefined
    ELSE IF PortMap[PortKeys[i]] = portId THEN PortKeys[i]
    ELSE FirstKeyFor(i + 1, portId)

\* getPortNameForPortId: the first key of the portMap mapped to portId
GetPortNameForPortId(portId) == FirstKeyFor(1, portId)

\* Device.portName
DevicePortName(device) == GetPortNameForPortId(device.portId)

\* this._portMap[portName] !== undefined
BaseHubPortExists(portName) == portName \in DOMAIN PortMap

\* if (portId): undefined and 0 are both falsy
HubPortExists(portName) ==
    portName \in DOMAIN PortMap /\ PortMap[portName] # 0

\* result of getDeviceAtPort: err = TRUE when the port-not-found error is thrown
BaseHubGetDeviceAtPort(table, portName) ==
    IF BaseHubPortExists(portName)
    THEN [err |-> FALSE, device |-> table[PortMap[portName]]]
    ELSE [err |-> TRUE, device |-> Absent]

HubGetDeviceAtPort(table, portName) ==
    IF HubPortExists(portName)
    THEN [err |-> FALSE, device |-> table[PortMap[portName]]]
    ELSE [err |-> TRUE, device |-> Absent]

\* Object.values(this._attachedDevices): integer keys in ascending order
LastPortId == CHOOSE m \in PortIds : \A q \in PortIds : q <= m

RECURSIVE ValuesFrom(_, _)
ValuesFrom(table, portId) ==
    IF portId > LastPortId THEN <<>>
    ELSE IF portId \notin DOMAIN table \/ table[portId] = Absent
    THEN ValuesFrom(table, portId + 1)
    ELSE <<table[portId]>> \o ValuesFrom(table, portId + 1)

GetDevices(table) == ValuesFrom(table, 0)

\* every device type code _createDevice is tried on
DeviceTypes == DOMAIN BaseHubDeviceConstructors \cup UnregisteredTypes

GetDevicesByType(table, deviceType) ==
    SelectSeq(GetDevices(table), LAMBDA d : d.type = deviceType)

(* ---------------- state ---------------- *)
VARIABLES
    attachedDevices,     \* BaseHub._attachedDevices: portId -> Device or Absent
    attachCallbacks,     \* BaseHub._attachCallbacks
    promises,            \* promises returned by BaseHub.waitForDevice*
    hubAttachedDevices,  \* Hub._attachedDevices
    hubAttachCallbacks,  \* Hub._attachCallbacks
    hubPromises,         \* promises returned by Hub.waitForDevice*
    nextId,              \* identity of the next Device object constructed
    last,                \* the operation that ran last, with what it did
    bleDevice,           \* transport of the BaseHub
    connects,            \* calls of BaseHub.connect()
    hubBleDevice,        \* transport of the Hub
    hubConnects,         \* calls of Hub.connect()
    created,             \* one call of _createDevice: its arguments and results
    received,            \* one call of a decoder's receive: its inputs and outcome
    lookup               \* one reverse lookup on a hub built with some portMap

hubVars == <<attachedDevices, attachCallbacks, promises, hubAttachedDevices,
             hubAttachCallbacks, hubPromises, nextId, last>>
connectVars == <<bleDevice, connects, hubBleDevice, hubConnects>>
vars == <<attachedDevices, attachCallbacks, promises, hubAttachedDevices,
          hubAttachCallbacks, hubPromises, nextId, last,
          bleDevice, connects, hubBleDevice, hubConnects, created, received, lookup>>

(* ---------------- promises ---------------- *)
PortNotFound == "Port does not exist on this hub type"

\* the promise of one waitForDevice* call: what was waited for (kind, key),
\* its settlement, how often resolve() was called on it and how often the
\* callback registered for it was invoked
PendingPromise(kind, key) ==
    [kind |-> kind, key |-> key, state |-> "pending", value |-> Absent,
     reason |-> "", calls |-> 0, offered |-> 0]
ResolvedPromise(kind, key, device) ==
    [kind |-> kind, key |-> key, state |-> "resolved", value |-> device,
     reason |-> "", calls |-> 1, offered |-> 0]
RejectedPromise(kind, key, reason) ==
    [kind |-> kind, key |-> key, state |-> "rejected", value |-> Absent,
     reason |-> reason, calls |-> 0, offered |-> 0]

\* resolve(device): settles a pending promise, has no effect on a settled one
Resolve(proms, k, device) ==
    [proms EXCEPT ![k] =
        IF @.state = "pending"
        THEN [@ EXCEPT !.state = "resolved", !.value = device, !.calls = @ + 1]
        ELSE [@ EXCEPT !.calls = @ + 1]]

\* the callback of promise k is invoked
Offer(proms, k) == [proms EXCEPT ![k].offered = @ + 1]

(* ---------------- waiters ---------------- *)
\* the predicate of the callback pushed by waitForDeviceAtPort
MatchesPort(waiter, device) == DevicePortName(device) = waiter.key

\* the predicate of the callback pushed by waitForDeviceByType
MatchesType(waiter, device) == device.type = waiter.key

Matches(waiter, device) ==
    IF waiter.kind = "port" THEN MatchesPort(waiter, device)
    ELSE MatchesType(waiter, device)

\* Array.prototype.splice(i, 1)
Splice(seq, i) == SubSeq(seq, 1, i - 1) \o SubSeq(seq, i + 1, Len(seq))

\* a waitForDeviceAtPort that waits for a port the hub does not have
BaseHubWaitForDeviceAtPortIgnoresError(table, cbs, proms, portName) ==
    LET r == BaseHubGetDeviceAtPort(table, portName)
        k == Len(proms) + 1
    IN  IF ~r.err /\ r.device # Absent
        THEN [cbs |-> cbs, proms |-> Append(proms, ResolvedPromise("port", portName, r.device))]
        ELSE [cbs |-> Append(cbs, [promise |-> k, kind |-> "port", key |-> portName]),
              proms |-> Append(proms, PendingPromise("port", portName))]

BaseHubWaitForDeviceAtPort(table, cbs, proms, portName) ==
    LET r == BaseHubGetDeviceAtPort(table, portName)
        k == Len(proms) + 1
    IN  IF r.err
        THEN [cbs |-> cbs, proms |-> Append(proms, RejectedPromise("port", portName, PortNotFound))]
        ELSE IF r.device # Absent
        THEN [cbs |-> cbs, proms |-> Append(proms, ResolvedPromise("port", portName, r.device))]
        ELSE [cbs |-> Append(cbs, [promise |-> k, kind |-> "port", key |-> portName]),
              proms |-> Append(proms, PendingPromise("port", portName))]

HubWaitForDeviceAtPort(table, cbs, proms, portName) ==
    LET r == HubGetDeviceAtPort(table, portName)
        k == Len(proms) + 1
    IN  IF r.err
        THEN [cbs |-> cbs, proms |-> Append(proms, RejectedPromise("port", portName, PortNotFound))]
        ELSE IF r.device # Absent
        THEN [cbs |-> cbs, proms |-> Append(proms, ResolvedPromise("port", portName, r.device))]
        ELSE [cbs |-> Append(cbs, [promise |-> k, kind |-> "port", key |-> portName]),
              proms |-> Append(proms, PendingPromise("port", portName))]

\* a waitForDeviceByType that takes any attached device for an existing one
BaseHubWaitForDeviceByTypeAnyDevice(table, cbs, proms, deviceType) ==
    LET existingDevices == GetDevices(table)
        k == Len(proms) + 1
    IN  IF Len(existingDevices) >= 1
        THEN [cbs |-> cbs, proms |-> Append(proms, ResolvedPromise("type", deviceType, existingDevices[1]))]
        ELSE [cbs |-> Append(cbs, [promise |-> k, kind |-> "type", key |-> deviceType]),
              proms |-> Append(proms, PendingPromise("type", deviceType))]

BaseHubWaitForDeviceByType(table, cbs, proms, deviceType) ==
    LET existingDevices == GetDevicesByType(table, deviceType)
        k == Len(proms) + 1
    IN  IF Len(existingDevices) >= 1
        THEN [cbs |-> cbs, proms |-> Append(proms, ResolvedPromise("type", deviceType, existingDevices[1]))]
        ELSE [cbs |-> Append(cbs, [promise |-> k, kind |-> "type", key |-> deviceType]),
              proms |-> Append(proms, PendingPromise("type", deviceType))]

HubWaitForDeviceByType(table, cbs, proms, deviceType) ==
    LET existingDevices == GetDevicesByType(table, deviceType)
        k == Len(proms) + 1
    IN  IF Len(existingDevices) >= 1
        THEN [cbs |-> cbs, proms |-> Append(proms, ResolvedPromise("type", deviceType, existingDevices[1]))]
        ELSE [cbs |-> Append(cbs, [promise |-> k, kind |-> "type", key |-> deviceType]),
              proms |-> Append(proms, PendingPromise("type", deviceType))]

(* ---------------- attach / detach ---------------- *)
\* a scan that walks the list forwards while it removes from it: the
\* callback after a removed one moves into its place and is skipped
RECURSIVE ForwardSpliceFrom(_, _, _, _, _)
ForwardSpliceFrom(cbs, proms, device, i, scan) ==
    IF i > Len(cbs) THEN [cbs |-> cbs, proms |-> proms, scan |-> scan]
    ELSE LET callback == cbs[i]
         IN  IF Matches(callback, device)
             THEN ForwardSpliceFrom(Splice(cbs, i),
                      Resolve(Offer(proms, callback.promise), callback.promise, device),
                      device, i + 1, Append(scan, callback.promise))
             ELSE ForwardSpliceFrom(cbs, Offer(proms, callback.promise),
                      device, i + 1, Append(scan, callback.promise))

BaseHubScanForwardSplice(cbs, proms, device, i, scan) ==
    ForwardSpliceFrom(cbs, proms, device, 1, scan)

\* let i = length; while (i--) { if (callback(device)) splice(i, 1) }
\* scan = the promises of the callbacks invoked, in invocation order
RECURSIVE BaseHubScan(_, _, _, _, _)
BaseHubScan(cbs, proms, device, i, scan) ==
    IF i = 0 THEN [cbs |-> cbs, proms |-> proms, scan |-> scan]
    ELSE LET callback == cbs[i]
         IN  IF Matches(callback, device)
             THEN BaseHubScan(Splice(cbs, i),
                              Resolve(Offer(proms, callback.promise), callback.promise, device),
                              device, i - 1, Append(scan, callback.promise))
             ELSE BaseHubScan(cbs, Offer(proms, callback.promise),
                              device, i - 1, Append(scan, callback.promise))

\* this._attachCallbacks.forEach((callback) => { callback(device); })
RECURSIVE HubScan(_, _, _, _, _)
HubScan(cbs, proms, device, i, scan) ==
    IF i > Len(cbs) THEN [cbs |-> cbs, proms |-> proms, scan |-> scan]
    ELSE LET callback == cbs[i]
         IN  IF Matches(callback, device)
             THEN HubScan(cbs,
                          Resolve(Offer(proms, callback.promise), callback.promise, device),
                          device, i + 1, Append(scan, callback.promise))
             ELSE HubScan(cbs, Offer(proms, callback.promise),
                          device, i + 1, Append(scan, callback.promise))

\* this._attachedDevices[device.portId] = device
BaseHubInsert(table, device) == [table EXCEPT ![device.portId] = device]

HubInsert(table, device) == [table EXCEPT ![device.portId] = device]

\* delete this._attachedDevices[device.portId]
BaseHubDelete(table, device) == [table EXCEPT ![device.portId] = Absent]

HubDelete(table, device) == [table EXCEPT ![device.portId] = Absent]

\* this.emit(name, device): what a listener of the event is handed and what
\* it finds when it runs, the table entry of the device's port and the
\* waits already resolved
Emit(name, device, table, proms) ==
    [name |-> name, device |-> device, atPort |-> table[device.portId],
     resolved |-> {k \in DOMAIN proms : proms[k].state = "resolved"}]

\* an _attachDevice that ignores the attach on a port that holds a Device
BaseHubAttachDeviceKeepsFormer(table, cbs, proms, device) ==
    LET t == IF table[device.portId] = Absent THEN BaseHubInsert(table, device)
             ELSE table
        e == Emit("attach", device, t, proms)
        s == BaseHubScan(cbs, proms, device, Len(cbs), <<>>)
    IN  [table |-> t, cbs |-> s.cbs, proms |-> s.proms, scan |-> s.scan,
         emits |-> <<e>>]

\* _attachDevice: insert, emit "attach", scan the callbacks
BaseHubAttachDevice(table, cbs, proms, device) ==
    LET t == BaseHubInsert(table, device)
        e == Emit("attach", device, t, proms)
        s == BaseHubScan(cbs, proms, device, Len(cbs), <<>>)
    IN  [table |-> t, cbs |-> s.cbs, proms |-> s.proms, scan |-> s.scan,
         emits |-> <<e>>]

HubAttachDevice(table, cbs, proms, device) ==
    LET t == HubInsert(table, device)
        e == Emit("attach", device, t, proms)
        s == HubScan(cbs, proms, device, 1, <<>>)
    IN  [table |-> t, cbs |-> s.cbs, proms |-> s.proms, scan |-> s.scan,
         emits |-> <<e>>]

\* a _detachDevice that also drops the pending callbacks
BaseHubDetachDeviceDropsWaiters(table, cbs, proms, device) ==
    LET t == BaseHubDelete(table, device)
    IN  [table |-> t, cbs |-> <<>>, proms |-> proms,
         emits |-> <<Emit("detach", device, t, proms)>>]

\* _detachDevice: the table entry is deleted, "detach" is emitted, the
\* callbacks are not touched
BaseHubDetachDevice(table, cbs, proms, device) ==
    LET t == BaseHubDelete(table, device)
    IN  [table |-> t, cbs |-> cbs, proms |-> proms,
         emits |-> <<Emit("detach", device, t, proms)>>]

HubDetachDevice(table, cbs, proms, device) ==
    LET t == HubDelete(table, device)
    IN  [table |-> t, cbs |-> cbs, proms |-> proms,
         emits |-> <<Emit("detach", device, t, proms)>>]

\* last: the operation, its arguments (portId, key), the Device it was about
\* in each hub, the former occupant of the port, the callbacks invoked in
\* order (scan) and the hub-level events emitted in order (emits)
NoOp == [op |-> "init", portId |-> -1, key |-> "", device |-> Absent,
         hubDevice |-> Absent, former |-> Absent, hubFormer |-> Absent,
         scan |-> <<>>, hubScan |-> <<>>, emits |-> <<>>, hubEmits |-> <<>>]

(* ---------------- the "disconnect" handler ---------------- *)
\* this.emit("disconnect")
EmitDisconnect ==
    [name |-> "disconnect", device |-> Absent, atPort |-> Absent, resolved |-> {}]

\* a handler that forgets the attached devices when the hub disconnects
BaseHubOnDisconnectClearsDevices(table, cbs, proms) ==
    [table |-> [p \in DOMAIN table |-> Absent], cbs |-> cbs, proms |-> proms,
     emits |-> <<EmitDisconnect>>]

\* device.on("disconnect", () => { this.emit("disconnect"); })
BaseHubOnDisconnect(table, cbs, proms) ==
    [table |-> table, cbs |-> cbs, proms |-> proms, emits |-> <<EmitDisconnect>>]

HubOnDisconnect(table, cbs, proms) ==
    [table |-> table, cbs |-> cbs, proms |-> proms, emits |-> <<EmitDisconnect>>]

(* ---------------- the transport ---------------- *)
BleIdle == [connecting |-> FALSE, connected |-> FALSE, connectCalls |-> 0]

\* IBLEAbstraction.connect(): the transport is connecting until it settles
BleConnect(ble) ==
    [ble EXCEPT !.connecting = TRUE, !.connectCalls = @ + 1]

BleSettle(ble, ok) ==
    [ble EXCEPT !.connecting = FALSE, !.connected = ok]

BleDisconnect(ble) == [ble EXCEPT !.connected = FALSE]

(* ---------------- connect ---------------- *)
\* one call of connect(): the promise it returned, the position of its
\* async executor, and the outcome of the transport connect it awaits
RejectedCall(reason) ==
    [state |-> "rejected", reason |-> reason, pc |-> "returned", transport |-> "none"]
AwaitingCall ==
    [state |-> "pending", reason |-> "", pc |-> "await", transport |-> "inflight"]

\* a connect() without the "Already connected" branch
BaseHubConnectNoConnectedGuard(ble, calls) ==
    IF ble.connecting
    THEN [ble |-> ble, calls |-> Append(calls, RejectedCall("Already connecting"))]
    ELSE [ble |-> BleConnect(ble), calls |-> Append(calls, AwaitingCall)]

\* connect(), up to the await
BaseHubConnect(ble, calls) ==
    IF ble.connecting
    THEN [ble |-> ble, calls |-> Append(calls, RejectedCall("Already connecting"))]
    ELSE IF ble.connected
    THEN [ble |-> ble, calls |-> Append(calls, RejectedCall("Already connected"))]
    ELSE [ble |-> BleConnect(ble), calls |-> Append(calls, AwaitingCall)]

HubConnect(ble, calls) ==
    IF ble.connecting
    THEN [ble |-> ble, calls |-> Append(calls, RejectedCall("Already connecting"))]
    ELSE IF ble.connected
    THEN [ble |-> ble, calls |-> Append(calls, RejectedCall("Already connected"))]
    ELSE [ble |-> BleConnect(ble), calls |-> Append(calls, AwaitingCall)]

\* the executor after the await: return connectResolve() when the transport
\* connect succeeded; when it failed the await throws inside the async
\* executor, whose own promise nobody observes
BaseHubConnectResume(call) ==
    IF call.transport = "ok"
    THEN [call EXCEPT !.state = "resolved", !.pc = "returned"]
    ELSE [call EXCEPT !.pc = "threw"]

HubConnectResume(call) ==
    IF call.transport = "ok"
    THEN [call EXCEPT !.state = "resolved", !.pc = "returned"]
    ELSE [call EXCEPT !.pc = "threw"]

\* the transport and the connect() call of a hub that has connected
BleConnected == BleSettle(BleConnect(BleIdle), TRUE)
ConnectedCall == BaseHubConnectResume([AwaitingCall EXCEPT !.transport = "ok"])
HubConnectedCall == HubConnectResume([AwaitingCall EXCEPT !.transport = "ok"])

NotCreated(deviceType, portId) ==
    [deviceType |-> deviceType, portId |-> portId, done |-> FALSE,
     device |-> Absent, hubDevice |-> Absent]

(* ---------------- decoders: JavaScript values and Buffer reads ---------------- *)
Num(n) == [type |-> "number", value |-> n]
Undef == [type |-> "undefined", value |-> 0]

\* message[i]: the byte at index i, undefined past the end of the buffer
ByteAt(message, i) ==
    IF i < Len(message) THEN Num(message[i + 1]) ELSE Undef

\* message.readUInt16LE(offset): throws a RangeError unless two bytes are there
ReadUInt16LE(message, offset) ==
    IF offset + 2 <= Len(message)
    THEN [threw |-> FALSE, value |-> message[offset + 1] + 256 * message[offset + 2]]
    ELSE [threw |-> TRUE, value |-> 0]

\* message.readInt16LE(offset): the same two bytes read as a signed value
ReadInt16LE(message, offset) ==
    LET u == ReadUInt16LE(message, offset)
    IN  IF ~u.threw /\ u.value >= 32768
        THEN [threw |-> FALSE, value |-> u.value - 65536]
        ELSE u

\* Math.floor(a / b) for a >= 0, b > 0
Floor(a, b) == a \div b

\* how a call of receive ends: it returns, it throws, or it has handed the
\* message to the base class
Returned(events) == [threw |-> FALSE, super |-> FALSE, events |-> events]
Thrown == [threw |-> TRUE, super |-> FALSE, events |-> <<>>]
Delegated == [threw |-> FALSE, super |-> TRUE, events |-> <<>>]

\* Device.notify: one device-scoped event
Notify(name, payload) == [scope |-> "device", name |-> name, payload |-> payload]
\* Device.emitGlobal: one event re-scoped through the owning hub
EmitGlobal(name, payload) == [scope |-> "hub", name |-> name, payload |-> payload]

(* ---------------- DuploTrainBaseColorSensor ---------------- *)
COLOR == 0
REFLECTIVITY == 2
RGB == 3

\* a COLOR case without the upper limit on the colour code
DecodeColorNoLimit(message) ==
    LET b == ByteAt(message, 4)
    IN  IF b.type = "number"
        THEN Returned(<<Notify("color", [color |-> b.value])>>)
        ELSE Returned(<<>>)

\* case Mode.COLOR
DecodeColor(message) ==
    LET b == ByteAt(message, 4)
    IN  IF b.type = "number" /\ b.value <= 10
        THEN Returned(<<Notify("color", [color |-> b.value])>>)
        ELSE Returned(<<>>)

\* case Mode.REFLECTIVITY
DecodeReflectivity(message) ==
    Returned(<<Notify("reflect", [reflect |-> ByteAt(message, 4)])>>)

\* an RGB case that reads green and blue from each other's offset
DecodeRGBSwapsChannels(message) ==
    LET red == ReadUInt16LE(message, 4)
        green == ReadUInt16LE(message, 8)
        blue == ReadUInt16LE(message, 6)
    IN  IF red.threw \/ green.threw \/ blue.threw THEN Thrown
        ELSE Returned(<<Notify("rgb", [red |-> Floor(red.value, 4),
                                       green |-> Floor(green.value, 4),
                                       blue |-> Floor(blue.value, 4)])>>)

\* an RGB case that forgets the division by 4
DecodeRGBNoDivide(message) ==
    LET red == ReadUInt16LE(message, 4)
        green == ReadUInt16LE(message, 6)
        blue == ReadUInt16LE(message, 8)
    IN  IF red.threw \/ green.threw \/ blue.threw THEN Thrown
        ELSE Returned(<<Notify("rgb", [red |-> red.value,
                                       green |-> green.value,
                                       blue |-> blue.value])>>)

\* case Mode.RGB
DecodeRGB(message) ==
    LET red == ReadUInt16LE(message, 4)
        green == ReadUInt16LE(message, 6)
        blue == ReadUInt16LE(message, 8)
    IN  IF red.threw \/ green.threw \/ blue.threw THEN Thrown
        ELSE Returned(<<Notify("rgb", [red |-> Floor(red.value, 4),
                                       green |-> Floor(green.value, 4),
                                       blue |-> Floor(blue.value, 4)])>>)

DuploTrainBaseColorSensorReceive(autoParse, mode, message) ==
    IF autoParse THEN Delegated
    ELSE CASE mode = COLOR -> DecodeColor(message)
           [] mode = REFLECTIVITY -> DecodeReflectivity(message)
           [] mode = RGB -> DecodeRGB(message)
           [] OTHER -> Returned(<<>>)

(* ---------------- VoltageSensor ---------------- *)
VOLTAGE == 0

HubTypes == {"UNKNOWN", "WEDO2_SMART_HUB", "MOVE_HUB", "HUB", "REMOTE_CONTROL",
             "DUPLO_TRAIN_BASE", "TECHNIC_MEDIUM_HUB", "NOT_A_HUB_TYPE"}

\* the tables, volts in thousandths
MaxVoltageValue ==
    [UNKNOWN |-> 9615, DUPLO_TRAIN_BASE |-> 6400, REMOTE_CONTROL |-> 6400]
MaxVoltageRaw ==
    [UNKNOWN |-> 3893, DUPLO_TRAIN_BASE |-> 3047, REMOTE_CONTROL |-> 3200,
     TECHNIC_MEDIUM_HUB |-> 4095]

\* table[key]: undefined for a key the table does not hold
Lookup(table, key) ==
    IF key \in DOMAIN table THEN Num(table[key]) ELSE Undef

IsWeDo2SmartHub(hubType) == hubType = "WEDO2_SMART_HUB"

\* a voltage num / den, kept exact; arithmetic on undefined gives NaN
Ratio(num, den) == [type |-> "number", num |-> num, den |-> den]
NaN == [type |-> "NaN", num |-> 0, den |-> 1]

\* rawValue * maxVoltageValue / maxVoltageRaw
Scale(rawValue, maxVoltageValue, maxVoltageRaw) ==
    IF maxVoltageValue.type = "number" /\ maxVoltageRaw.type = "number"
    THEN Ratio(rawValue * maxVoltageValue.value, maxVoltageRaw.value * 1000)
    ELSE NaN

\* a lookup that falls back to the UNKNOWN row for the voltage only
VoltageConstantsNoRawFallback(hubType) ==
    LET value == Lookup(MaxVoltageValue, hubType)
        raw == Lookup(MaxVoltageRaw, hubType)
    IN  [maxVoltageValue |-> IF value = Undef
                             THEN Lookup(MaxVoltageValue, "UNKNOWN") ELSE value,
         maxVoltageRaw |-> raw]

\* a lookup that takes the whole UNKNOWN row unless both tables hold the
\* hub type
VoltageConstantsRowFallback(hubType) ==
    LET row == IF hubType \in DOMAIN MaxVoltageValue \cap DOMAIN MaxVoltageRaw
               THEN hubType ELSE "UNKNOWN"
    IN  [maxVoltageValue |-> Lookup(MaxVoltageValue, row),
         maxVoltageRaw |-> Lookup(MaxVoltageRaw, row)]

\* the pair of constants the non-WeDo2 branch computes with
VoltageConstants(hubType) ==
    LET value == Lookup(MaxVoltageValue, hubType)
        raw == Lookup(MaxVoltageRaw, hubType)
    IN  [maxVoltageValue |-> IF value = Undef
                             THEN Lookup(MaxVoltageValue, "UNKNOWN") ELSE value,
         maxVoltageRaw |-> IF raw = Undef
                           THEN Lookup(MaxVoltageRaw, "UNKNOWN") ELSE raw]

\* a receive that decodes a voltage whatever the mode is
VoltageSensorReceiveAnyMode(hubType, mode, message) ==
    IF IsWeDo2SmartHub(hubType)
    THEN LET v == ReadInt16LE(message, 2)
         IN  IF v.threw THEN Thrown
             ELSE Returned(<<EmitGlobal("voltage", Ratio(v.value, 40))>>)
    ELSE LET c == VoltageConstants(hubType)
             v == ReadUInt16LE(message, 4)
         IN  IF v.threw THEN Thrown
             ELSE Returned(<<EmitGlobal("voltage",
                     Scale(v.value, c.maxVoltageValue, c.maxVoltageRaw))>>)

VoltageSensorReceive(hubType, mode, message) ==
    IF mode # VOLTAGE THEN Returned(<<>>)
    ELSE IF IsWeDo2SmartHub(hubType)
    THEN LET v == ReadInt16LE(message, 2)
         IN  IF v.threw THEN Thrown
             ELSE Returned(<<EmitGlobal("voltage", Ratio(v.value, 40))>>)
    ELSE LET c == VoltageConstants(hubType)
             v == ReadUInt16LE(message, 4)
         IN  IF v.threw THEN Thrown
             ELSE Returned(<<EmitGlobal("voltage",
                     Scale(v.value, c.maxVoltageValue, c.maxVoltageRaw))>>)

(* ---------------- RemoteControlButton ---------------- *)
BUTTON_EVENTS == 0

ButtonState == [UP |-> 1, DOWN |-> 255, STOP |-> 127, RELEASED |-> 0]

\* a receive that takes the button state from the byte before byte 4
RemoteControlButtonReceiveWrongOffset(mode, message) ==
    IF mode = BUTTON_EVENTS
    THEN Returned(<<EmitGlobal("remoteButton", ByteAt(message, 3))>>)
    ELSE Returned(<<>>)

RemoteControlButtonReceive(mode, message) ==
    IF mode = BUTTON_EVENTS
    THEN Returned(<<EmitGlobal("remoteButton", ByteAt(message, 4))>>)
    ELSE Returned(<<>>)

(* ---------------- the messages and modes a decoder is handed ---------------- *)
Decoders == {"DuploTrainBaseColorSensor", "VoltageSensor", "RemoteControlButton"}

\* the modes a device can be in: the recognised ones and one no decoder knows
Modes == {0, 1, 2, 3}

\* values of a 16-bit field
RawValues == {400, 800, 1023, 1200, 65535}

\* v as two bytes, low byte first
LE16(v) == <<v % 256, v \div 256>>

\* length, hub id, message type, port id
Header == <<10, 0, 69, 0>>

FullMessages ==
    {Header \o <<b>> : b \in 0..255}
    \cup {Header \o LE16(v) : v \in RawValues}
    \cup {<<0, 0>> \o LE16(v) : v \in RawValues}
    \cup {Header \o LE16(r) \o LE16(g) \o LE16(b) :
              r \in RawValues, g \in RawValues, b \in RawValues}

\* every message, whole or cut short
Messages == UNION {{SubSeq(m, 1, n) : n \in 0..Len(m)} : m \in FullMessages}

NotReceived(decoder, mode, autoParse, hubType, message) ==
    [decoder |-> decoder, mode |-> mode, autoParse |-> autoParse,
     hubType |-> hubType, message |-> message, done |-> FALSE,
     result |-> Returned(<<>>)]

ReceiveInputs ==
    {NotReceived("DuploTrainBaseColorSensor", mode, autoParse, "HUB", m) :
         mode \in Modes, autoParse \in BOOLEAN, m \in Messages}
    \cup {NotReceived("VoltageSensor", mode, FALSE, hubType, m) :
         mode \in Modes, hubType \in HubTypes, m \in Messages}
    \cup {NotReceived("RemoteControlButton", mode, FALSE, "REMOTE_CONTROL", m) :
         mode \in Modes, m \in Messages}

(* ---------------- hubs built with any portMap ---------------- *)
LookupNames == {"A", "B", "C"}
LookupIds == {0, 1, 2}

\* the keys of a portMap in the order Object.keys lists them
KeyOrders ==
    {ks \in UNION {[1..n -> LookupNames] : n \in 0..Cardinality(LookupNames)} :
        \A i \in DOMAIN ks, j \in DOMAIN ks : ks[i] = ks[j] => i = j}

\* a portMap: its keys in order, and the port id of each
PortMaps ==
    UNION {{[keys |-> ks, ids |-> f] : f \in [{ks[i] : i \in DOMAIN ks} -> LookupIds]} :
              ks \in KeyOrders}

\* getPortNameForPortId on a hub whose portMap is portMap
RECURSIVE FirstKeyIn(_, _, _)
FirstKeyIn(portMap, i, portId) ==
    IF i > Len(portMap.keys) THEN Undefined
    ELSE IF portMap.ids[portMap.keys[i]] = portId THEN portMap.keys[i]
    ELSE FirstKeyIn(portMap, i + 1, portId)

\* getDeviceAtPort on hubs whose portMap is portMap
BaseHubGetDeviceAtPortIn(portMap, table, portName) ==
    IF portName \in DOMAIN portMap.ids
    THEN [err |-> FALSE, device |-> table[portMap.ids[portName]]]
    ELSE [err |-> TRUE, device |-> Absent]

HubGetDeviceAtPortIn(portMap, table, portName) ==
    IF portName \in DOMAIN portMap.ids /\ portMap.ids[portName] # 0
    THEN [err |-> FALSE, device |-> table[portMap.ids[portName]]]
    ELSE [err |-> TRUE, device |-> Absent]

\* the table of a hub whose only device is on portId
OneDeviceTable(portId) ==
    [p \in LookupIds \cup {portId} |->
        IF p = portId THEN NewGenericDevice("UNKNOWN", portId, 1) ELSE Absent]

NotLookedUp(portMap, portId) ==
    [portMap |-> portMap, portId |-> portId, done |-> FALSE,
     portName |-> Undefined, hubPortName |-> Undefined,
     found |-> [err |-> FALSE, device |-> Absent],
     hubFound |-> [err |-> FALSE, device |-> Absent]]

(* ---------------- initial state ---------------- *)
Init ==
    /\ attachedDevices = [p \in PortIds |-> Absent]
    /\ attachCallbacks = <<>>
    /\ promises = <<>>
    /\ hubAttachedDevices = [p \in PortIds |-> Absent]
    /\ hubAttachCallbacks = <<>>
    /\ hubPromises = <<>>
    /\ nextId = 1
    /\ last = NoOp
    /\ bleDevice = BleIdle
    /\ connects = <<>>
    /\ hubBleDevice = BleIdle
    /\ hubConnects = <<>>
    /\ created = NotCreated("LIGHT", 0)
    /\ received = NotReceived("VoltageSensor", VOLTAGE, FALSE, "HUB", <<>>)
    /\ lookup = NotLookedUp([keys |-> <<>>, ids |-> <<>>], 0)

\* the same hub, about to be handed any device type code on any port
InitCreate ==
    /\ attachedDevices = [p \in PortIds |-> Absent]
    /\ attachCallbacks = <<>>
    /\ promises = <<>>
    /\ hubAttachedDevices = [p \in PortIds |-> Absent]
    /\ hubAttachCallbacks = <<>>
    /\ hubPromises = <<>>
    /\ nextId = 1
    /\ last = NoOp
    /\ bleDevice = BleIdle
    /\ connects = <<>>
    /\ hubBleDevice = BleIdle
    /\ hubConnects = <<>>
    /\ created \in {NotCreated(t, p) : t \in DeviceTypes, p \in PortIds}
    /\ received = NotReceived("VoltageSensor", VOLTAGE, FALSE, "HUB", <<>>)
    /\ lookup = NotLookedUp([keys |-> <<>>, ids |-> <<>>], 0)

\* a decoder in any mode, about to be handed any message
InitReceive ==
    /\ attachedDevices = [p \in PortIds |-> Absent]
    /\ attachCallbacks = <<>>
    /\ promises = <<>>
    /\ hubAttachedDevices = [p \in PortIds |-> Absent]
    /\ hubAttachCallbacks = <<>>
    /\ hubPromises = <<>>
    /\ nextId = 1
    /\ last = NoOp
    /\ bleDevice = BleIdle
    /\ connects = <<>>
    /\ hubBleDevice = BleIdle
    /\ hubConnects = <<>>
    /\ created = NotCreated("LIGHT", 0)
    /\ received \in ReceiveInputs
    /\ lookup = NotLookedUp([keys |-> <<>>, ids |-> <<>>], 0)

\* the hub after connect() has resolved
InitConnected ==
    /\ attachedDevices = [p \in PortIds |-> Absent]
    /\ attachCallbacks = <<>>
    /\ promises = <<>>
    /\ hubAttachedDevices = [p \in PortIds |-> Absent]
    /\ hubAttachCallbacks = <<>>
    /\ hubPromises = <<>>
    /\ nextId = 1
    /\ last = NoOp
    /\ bleDevice = BleConnected
    /\ connects = <<ConnectedCall>>
    /\ hubBleDevice = BleConnected
    /\ hubConnects = <<HubConnectedCall>>
    /\ created = NotCreated("LIGHT", 0)
    /\ received = NotReceived("VoltageSensor", VOLTAGE, FALSE, "HUB", <<>>)
    /\ lookup = NotLookedUp([keys |-> <<>>, ids |-> <<>>], 0)

\* a hub built with any portMap, one device attached on any port id, before
\* the device's port name is looked up
InitLookup ==
    /\ attachedDevices = [p \in PortIds |-> Absent]
    /\ attachCallbacks = <<>>
    /\ promises = <<>>
    /\ hubAttachedDevices = [p \in PortIds |-> Absent]
    /\ hubAttachCallbacks = <<>>
    /\ hubPromises = <<>>
    /\ nextId = 1
    /\ last = NoOp
    /\ bleDevice = BleIdle
    /\ connects = <<>>
    /\ hubBleDevice = BleIdle
    /\ hubConnects = <<>>
    /\ created = NotCreated("LIGHT", 0)
    /\ received = NotReceived("VoltageSensor", VOLTAGE, FALSE, "HUB", <<>>)
    /\ lookup \in {NotLookedUp(portMap, portId) :
                       portMap \in PortMaps, portId \in LookupIds \cup {3}}

(* ---------------- operations ---------------- *)
\* transport attach notification: _createDevice, then _attachDevice
Attach(portId, deviceType) ==
    /\ nextId <= MaxDevices
    /\ LET device == BaseHubCreateDevice(deviceType, portId, nextId)
           hubDevice == HubCreateDevice(deviceType, portId, nextId)
           b == BaseHubAttachDevice(attachedDevices, attachCallbacks, promises, device)
           h == HubAttachDevice(hubAttachedDevices, hubAttachCallbacks, hubPromises, hubDevice)
       IN  /\ attachedDevices' = b.table
           /\ attachCallbacks' = b.cbs
           /\ promises' = b.proms
           /\ hubAttachedDevices' = h.table
           /\ hubAttachCallbacks' = h.cbs
           /\ hubPromises' = h.proms
           /\ last' = [op |-> "attach", portId |-> portId, key |-> deviceType,
                       device |-> device, hubDevice |-> hubDevice,
                       former |-> attachedDevices[portId],
                       hubFormer |-> hubAttachedDevices[portId],
                       scan |-> b.scan, hubScan |-> h.scan,
                       emits |-> b.emits, hubEmits |-> h.emits]
    /\ nextId' = nextId + 1
    /\ UNCHANGED <<connectVars, created, received, lookup>>

\* transport detach notification for the device on portId: _detachDevice
Detach(portId) ==
    /\ attachedDevices[portId] # Absent
    /\ hubAttachedDevices[portId] # Absent
    /\ LET b == BaseHubDetachDevice(attachedDevices, attachCallbacks, promises,
                                     attachedDevices[portId])
           h == HubDetachDevice(hubAttachedDevices, hubAttachCallbacks, hubPromises,
                                hubAttachedDevices[portId])
       IN  /\ attachedDevices' = b.table
           /\ attachCallbacks' = b.cbs
           /\ promises' = b.proms
           /\ hubAttachedDevices' = h.table
           /\ hubAttachCallbacks' = h.cbs
           /\ hubPromises' = h.proms
           /\ last' = [op |-> "detach", portId |-> portId, key |-> "",
                       device |-> attachedDevices[portId],
                       hubDevice |-> hubAttachedDevices[portId],
                       former |-> Absent, hubFormer |-> Absent,
                       scan |-> <<>>, hubScan |-> <<>>,
                       emits |-> b.emits, hubEmits |-> h.emits]
    /\ UNCHANGED nextId
    /\ UNCHANGED <<connectVars, created, received, lookup>>

WaitForDeviceAtPort(portName) ==
    /\ Len(promises) < MaxWaits
    /\ LET b == BaseHubWaitForDeviceAtPort(attachedDevices, attachCallbacks, promises, portName)
           h == HubWaitForDeviceAtPort(hubAttachedDevices, hubAttachCallbacks, hubPromises, portName)
       IN  /\ attachCallbacks' = b.cbs
           /\ promises' = b.proms
           /\ hubAttachCallbacks' = h.cbs
           /\ hubPromises' = h.proms
    /\ last' = [NoOp EXCEPT !.op = "waitForDeviceAtPort", !.key = portName]
    /\ UNCHANGED <<attachedDevices, hubAttachedDevices, nextId>>
    /\ UNCHANGED <<connectVars, created, received, lookup>>

WaitForDeviceByType(deviceType) ==
    /\ Len(promises) < MaxWaits
    /\ LET b == BaseHubWaitForDeviceByType(attachedDevices, attachCallbacks, promises, deviceType)
           h == HubWaitForDeviceByType(hubAttachedDevices, hubAttachCallbacks, hubPromises, deviceType)
       IN  /\ attachCallbacks' = b.cbs
           /\ promises' = b.proms
           /\ hubAttachCallbacks' = h.cbs
           /\ hubPromises' = h.proms
    /\ last' = [NoOp EXCEPT !.op = "waitForDeviceByType", !.key = deviceType]
    /\ UNCHANGED <<attachedDevices, hubAttachedDevices, nextId>>
    /\ UNCHANGED <<connectVars, created, received, lookup>>

Connect ==
    /\ Len(connects) < MaxConnects
    /\ LET b == BaseHubConnect(bleDevice, connects)
           h == HubConnect(hubBleDevice, hubConnects)
       IN  /\ bleDevice' = b.ble
           /\ connects' = b.calls
           /\ hubBleDevice' = h.ble
           /\ hubConnects' = h.calls
    /\ UNCHANGED <<hubVars, created, received, lookup>>

\* the transport's connect settles: it succeeded (ok) or failed
SettleCalls(calls, ok) ==
    [k \in DOMAIN calls |->
        IF calls[k].transport = "inflight"
        THEN [calls[k] EXCEPT !.transport = IF ok THEN "ok" ELSE "failed"]
        ELSE calls[k]]

TransportConnectSettles(ok) ==
    /\ bleDevice.connecting
    /\ bleDevice' = BleSettle(bleDevice, ok)
    /\ hubBleDevice' = BleSettle(hubBleDevice, ok)
    /\ connects' = SettleCalls(connects, ok)
    /\ hubConnects' = SettleCalls(hubConnects, ok)
    /\ UNCHANGED <<hubVars, created, received, lookup>>

\* the executor of call k continues after its await
ConnectResume(k) ==
    /\ k \in DOMAIN connects
    /\ connects[k].pc = "await"
    /\ connects[k].transport \in {"ok", "failed"}
    /\ connects' = [connects EXCEPT ![k] = BaseHubConnectResume(@)]
    /\ hubConnects' = [hubConnects EXCEPT ![k] = HubConnectResume(@)]
    /\ UNCHANGED <<bleDevice, hubBleDevice>>
    /\ UNCHANGED <<hubVars, created, received, lookup>>

\* the transport loses or closes the connection
TransportDisconnect ==
    /\ bleDevice.connected
    /\ bleDevice' = BleDisconnect(bleDevice)
    /\ hubBleDevice' = BleDisconnect(hubBleDevice)
    /\ LET b == BaseHubOnDisconnect(attachedDevices, attachCallbacks, promises)
           h == HubOnDisconnect(hubAttachedDevices, hubAttachCallbacks, hubPromises)
       IN  /\ attachedDevices' = b.table
           /\ attachCallbacks' = b.cbs
           /\ promises' = b.proms
           /\ hubAttachedDevices' = h.table
           /\ hubAttachCallbacks' = h.cbs
           /\ hubPromises' = h.proms
           /\ last' = [NoOp EXCEPT !.op = "disconnect", !.emits = b.emits,
                                   !.hubEmits = h.emits]
    /\ UNCHANGED <<connects, hubConnects, nextId>>
    /\ UNCHANGED <<created, received, lookup>>

\* _createDevice(deviceType, portId) on both hubs
CreateDevice ==
    /\ ~created.done
    /\ created' = [created EXCEPT
           !.done = TRUE,
           !.device = BaseHubCreateDevice(created.deviceType, created.portId, nextId),
           !.hubDevice = HubCreateDevice(created.deviceType, created.portId, nextId)]
    /\ nextId' = nextId + 1
    /\ UNCHANGED <<attachedDevices, attachCallbacks, promises, hubAttachedDevices,
                   hubAttachCallbacks, hubPromises, last>>
    /\ UNCHANGED <<connectVars, received, lookup>>

\* DuploTrainBaseColorSensor.receive(message)
ColorSensorReceives ==
    /\ ~received.done
    /\ received.decoder = "DuploTrainBaseColorSensor"
    /\ received' = [received EXCEPT
           !.done = TRUE,
           !.result = DuploTrainBaseColorSensorReceive(received.autoParse,
                          received.mode, received.message)]
    /\ UNCHANGED <<hubVars, connectVars, created, lookup>>

\* VoltageSensor.receive(message)
VoltageSensorReceives ==
    /\ ~received.done
    /\ received.decoder = "VoltageSensor"
    /\ received' = [received EXCEPT
           !.done = TRUE,
           !.result = VoltageSensorReceive(received.hubType, received.mode,
                          received.message)]
    /\ UNCHANGED <<hubVars, connectVars, created, lookup>>

\* RemoteControlButton.receive(message)
RemoteControlButtonReceives ==
    /\ ~received.done
    /\ received.decoder = "RemoteControlButton"
    /\ received' = [received EXCEPT
           !.done = TRUE,
           !.result = RemoteControlButtonReceive(received.mode, received.message)]
    /\ UNCHANGED <<hubVars, connectVars, created, lookup>>

\* getPortNameForPortId(portId) for the port of the attached device, then
\* getDeviceAtPort with the name it returned, on both hubs
LookUpPort ==
    /\ ~lookup.done
    /\ LET portName == FirstKeyIn(lookup.portMap, 1, lookup.portId)
           table == OneDeviceTable(lookup.portId)
       IN  lookup' = [lookup EXCEPT
               !.done = TRUE,
               !.portName = portName,
               !.hubPortName = portName,
               !.found = BaseHubGetDeviceAtPortIn(lookup.portMap, table, portName),
               !.hubFound = HubGetDeviceAtPortIn(lookup.portMap, table, portName)]
    /\ UNCHANGED <<hubVars, connectVars, created, received>>

Next ==
    \/ \E portId \in PortIds, deviceType \in AttachTypes : Attach(portId, deviceType)
    \/ \E portId \in PortIds : Detach(portId)
    \/ \E portName \in PortNames : WaitForDeviceAtPort(portName)
    \/ \E deviceType \in AttachTypes : WaitForDeviceByType(deviceType)

NextConnect ==
    \/ Connect
    \/ \E ok \in BOOLEAN : TransportConnectSettles(ok)
    \/ \E k \in 1..MaxConnects : ConnectResume(k)
    \/ TransportDisconnect

NextCreate == CreateDevice

Spec == Init /\ [][Next]_vars

SpecCreate == InitCreate /\ [][NextCreate]_vars

SpecConnect == Init /\ [][NextConnect]_vars

NextReceive ==
    \/ ColorSensorReceives
    \/ VoltageSensorReceives
    \/ RemoteControlButtonReceives

SpecReceive == InitReceive /\ [][NextReceive]_vars

\* a connected hub: the transport notifies attaches while it is connected,
\* the application waits for devices, and the connection is lost
NextDisconnect ==
    \/ \E portId \in PortIds, deviceType \in AttachTypes :
           bleDevice.connected /\ Attach(portId, deviceType)
    \/ \E portName \in PortNames : WaitForDeviceAtPort(portName)
    \/ \E deviceType \in AttachTypes : WaitForDeviceByType(deviceType)
    \/ TransportDisconnect

SpecDisconnect == InitConnected /\ [][NextDisconnect]_vars

NextLookup == LookUpPort

SpecLookup == InitLookup /\ [][NextLookup]_vars

(* ---------------- which operation a step is ---------------- *)
AttachStep == last'.op = "attach" /\ nextId' = nextId + 1
DetachStep == last'.op = "detach" /\ attachedDevices' # attachedDevices
WaitPortStep == last'.op = "waitForDeviceAtPort" /\ Len(promises') = Len(promises) + 1
WaitTypeStep == last'.op = "waitForDeviceByType" /\ Len(promises') = Len(promises) + 1
ConnectStep == Len(connects') = Len(connects) + 1

\* the promises of the callbacks of a pending list, in list order
Ids(cbs) == [i \in 1..Len(cbs) |-> cbs[i].promise]
Reverse(seq) == [i \in 1..Len(seq) |-> seq[Len(seq) + 1 - i]]
Range(seq) == {seq[i] : i \in 1..Len(seq)}

\* getDeviceAtPort returns absent for the name of port p: no error, no device
BaseHubReturnsAbsent(table, p) ==
    LET r == BaseHubGetDeviceAtPort(table, GetPortNameForPortId(p))
    IN  ~r.err /\ r.device = Absent
HubReturnsAbsent(table, p) ==
    LET r == HubGetDeviceAtPort(table, GetPortNameForPortId(p))
    IN  ~r.err /\ r.device = Absent

(* ---------------- C1 ---------------- *)
AtMostOnePerPort(table) ==
    \A p \in PortIds :
        Cardinality({i \in 1..Len(GetDevices(table)) : GetDevices(table)[i].portId = p}) <= 1

\* the table part of C1: the registered devices sit on pairwise distinct
\* ports, and a detach on p empties p and leaves every other entry alone
C1_Table(table, tableN) ==
    \A p \in PortIds :
        (DetachStep /\ last'.portId = p) =>
            /\ tableN[p] = Absent
            /\ \A q \in PortIds \ {p} : tableN[q] = table[q]

C1_BaseHub ==
    /\ [](AtMostOnePerPort(attachedDevices))
    /\ [][/\ C1_Table(attachedDevices, attachedDevices')
          /\ \A p \in PortIds :
                /\ (DetachStep /\ last'.portId = p) =>
                      BaseHubReturnsAbsent(attachedDevices', p)
                /\ (BaseHubReturnsAbsent(attachedDevices, p)
                      /\ ~(AttachStep /\ last'.portId = p)) =>
                      BaseHubReturnsAbsent(attachedDevices', p)]_vars

C1_Hub ==
    /\ [](AtMostOnePerPort(hubAttachedDevices))
    /\ [][/\ C1_Table(hubAttachedDevices, hubAttachedDevices')
          /\ \A p \in PortIds :
                /\ (DetachStep /\ last'.portId = p) =>
                      HubReturnsAbsent(hubAttachedDevices', p)
                /\ (HubReturnsAbsent(hubAttachedDevices, p)
                      /\ ~(AttachStep /\ last'.portId = p)) =>
                      HubReturnsAbsent(hubAttachedDevices', p)]_vars

\* C1: in both hubs the attached-device table holds at most one Device per
\* portId; after a detach of the device on port p, getDeviceAtPort for the
\* name of p returns absent until the next attach on p, and the detach
\* leaves the entries of the other ports unchanged.
C1_OneDevicePerPortAbsentAfterDetach == C1_BaseHub /\ C1_Hub

(* ---------------- C2 ---------------- *)
\* one step of a hub seen by the callers of waitForDeviceAtPort: table, cbs
\* and proms before the step, cbsN and promsN after it, device the Device
\* handed to _attachDevice when the step is an attach
WaitAtPortContract(table, cbs, proms, cbsN, promsN, device) ==
    /\ \A name \in DOMAIN PortMap :
          (WaitPortStep /\ last'.key = name) =>
              LET k == Len(promsN)
              IN  IF table[PortMap[name]] # Absent
                  THEN /\ promsN[k].state = "resolved"
                       /\ promsN[k].value = table[PortMap[name]]
                       /\ cbsN = cbs
                  ELSE /\ promsN[k].state = "pending"
                       /\ cbsN = Append(cbs, [promise |-> k, kind |-> "port", key |-> name])
    /\ \A k \in DOMAIN proms :
          (proms[k].kind = "port" /\ proms[k].state = "pending") =>
              IF AttachStep /\ DevicePortName(device) = proms[k].key
              THEN promsN[k].state = "resolved" /\ promsN[k].value = device
              ELSE promsN[k].state = "pending"
    /\ \A k \in DOMAIN proms :
          (proms[k].kind = "port" /\ proms[k].state = "resolved") =>
              promsN[k].state = "resolved" /\ promsN[k].value = proms[k].value

C2_BaseHub ==
    [][WaitAtPortContract(attachedDevices, attachCallbacks, promises,
                          attachCallbacks', promises', last'.device)]_vars

C2_Hub ==
    [][WaitAtPortContract(hubAttachedDevices, hubAttachCallbacks, hubPromises,
                          hubAttachCallbacks', hubPromises', last'.hubDevice)]_vars

\* C2: waitForDeviceAtPort(name) for a legal port name resolves at once with
\* the device attached at that port and registers no waiter, or else stays
\* pending until the first later attach of a device whose port name is name,
\* resolves with that device, and never changes afterwards, in both hubs.
C2_WaitAtPortResolvesOnce == C2_BaseHub /\ C2_Hub

(* ---------------- C3 ---------------- *)
C3_BaseHub == [][AttachStep => last'.scan = Reverse(Ids(attachCallbacks))]_vars

C3_Hub == [][AttachStep => last'.hubScan = Reverse(Ids(hubAttachCallbacks))]_vars

\* C3: one _attachDevice call invokes every waiter that was pending when it
\* began exactly once, the later-registered before the earlier-registered,
\* in both hubs.
C3_ScanInReverseOrder == C3_BaseHub /\ C3_Hub

(* ---------------- C4 ---------------- *)
NoWakeUpLost(cbs, proms, cbsN, promsN, device) ==
    AttachStep =>
        \A i \in DOMAIN cbs :
            Matches(cbs[i], device) =>
                /\ promsN[cbs[i].promise].state = "resolved"
                /\ promsN[cbs[i].promise].value = device
                /\ cbs[i] \notin Range(cbsN)

NoStaleWaiter(cbs, proms) ==
    \A i \in DOMAIN cbs : proms[cbs[i].promise].state = "pending"

C4_BaseHub ==
    /\ [](NoStaleWaiter(attachCallbacks, promises))
    /\ [][NoWakeUpLost(attachCallbacks, promises, attachCallbacks', promises',
                       last'.device)]_vars

C4_Hub ==
    /\ [](NoStaleWaiter(hubAttachCallbacks, hubPromises))
    /\ [][NoWakeUpLost(hubAttachCallbacks, hubPromises, hubAttachCallbacks',
                       hubPromises', last'.hubDevice)]_vars

\* C4: when an _attachDevice call completes, every waiter that was pending
\* before it and matches the attached device has been resolved with that
\* device and removed, and the pending list never holds a satisfied waiter,
\* in both hubs.
C4_NoLostWakeUpNoStaleWaiter == C4_BaseHub /\ C4_Hub

(* ---------------- C5 ---------------- *)
DetachKeepsWaiters(cbs, proms, cbsN, promsN, device) ==
    /\ DetachStep => (cbsN = cbs /\ promsN = proms)
    /\ AttachStep =>
          \A i \in DOMAIN cbs :
              (proms[cbs[i].promise].state = "pending" /\ Matches(cbs[i], device)) =>
                  /\ promsN[cbs[i].promise].state = "resolved"
                  /\ promsN[cbs[i].promise].value = device

\* C5: _detachDevice settles no pending wait and leaves the pending-waiter
\* list as it was, and a waiter that is pending is resolved by the next
\* attach that matches it, in both hubs.
C5_DetachLeavesWaitersPending ==
    [][/\ DetachKeepsWaiters(attachCallbacks, promises, attachCallbacks',
                             promises', last'.device)
       /\ DetachKeepsWaiters(hubAttachCallbacks, hubPromises, hubAttachCallbacks',
                             hubPromises', last'.hubDevice)]_vars

\* a detach has just run while a wait was pending in both hubs
C5_Witness ==
    /\ last.op = "detach"
    /\ \E i \in DOMAIN attachCallbacks :
          promises[attachCallbacks[i].promise].state = "pending"
    /\ \E i \in DOMAIN hubAttachCallbacks :
          hubPromises[hubAttachCallbacks[i].promise].state = "pending"

(* ---------------- C6 ---------------- *)
C6_BaseHub ==
    \A portName \in PortNames :
        LET r == BaseHubGetDeviceAtPort(attachedDevices, portName)
        IN  /\ r.err <=> (portName \notin DOMAIN PortMap)
            /\ (portName \in DOMAIN PortMap) =>
                  r.device = attachedDevices[PortMap[portName]]

C6_Hub ==
    \A portName \in PortNames :
        LET r == HubGetDeviceAtPort(hubAttachedDevices, portName)
        IN  /\ r.err <=> (portName \notin DOMAIN PortMap)
            /\ (portName \in DOMAIN PortMap) =>
                  r.device = hubAttachedDevices[PortMap[portName]]

\* C6: getDeviceAtPort(portName) raises the port-not-found error exactly
\* when portName is no key of the portMap, and for every key, port id 0
\* included, returns the device attached at its port id or absent, in both
\* hubs.
C6_ErrorIffNotInPortMap == C6_BaseHub /\ C6_Hub

(* ---------------- C7 ---------------- *)
\* one step of a hub seen by the callers of connect(): the transport and the
\* calls before the step (ble, calls) and after it (bleN, callsN)
ConnectContract(ble, calls, bleN, callsN) ==
    /\ ConnectStep =>
          LET call == callsN[Len(callsN)]
          IN  IF ble.connecting
              THEN /\ call.state = "rejected"
                   /\ call.reason = "Already connecting"
                   /\ bleN.connectCalls = ble.connectCalls
              ELSE IF ble.connected
              THEN /\ call.state = "rejected"
                   /\ call.reason = "Already connected"
                   /\ bleN.connectCalls = ble.connectCalls
              ELSE /\ call.state = "pending"
                   /\ bleN.connectCalls = ble.connectCalls + 1
    /\ ~ConnectStep => bleN.connectCalls = ble.connectCalls
    /\ \A k \in DOMAIN callsN :
          callsN[k].state = "resolved" => callsN[k].transport = "ok"

\* C7: connect() is rejected with "Already connecting" while the transport
\* is connecting and with "Already connected" while it is connected and not
\* connecting, without calling the transport's connect; otherwise it calls
\* the transport's connect once and resolves only after that call has
\* completed, in both hubs.
C7_ConnectGuards ==
    [][/\ ConnectContract(bleDevice, connects, bleDevice', connects')
       /\ ConnectContract(hubBleDevice, hubConnects, hubBleDevice', hubConnects')]_vars

\* the three outcomes of connect() have all happened, in both hubs
C7_Witness ==
    /\ \E k \in DOMAIN connects : connects[k].reason = "Already connecting"
    /\ \E k \in DOMAIN connects : connects[k].reason = "Already connected"
    /\ \E k \in DOMAIN connects : connects[k].state = "resolved"
    /\ \E k \in DOMAIN hubConnects : hubConnects[k].reason = "Already connecting"
    /\ \E k \in DOMAIN hubConnects : hubConnects[k].reason = "Already connected"
    /\ \E k \in DOMAIN hubConnects : hubConnects[k].state = "resolved"

(* ---------------- C8 ---------------- *)
ConnectSettles(calls) ==
    \A k \in DOMAIN calls :
        calls[k].pc # "await" =>
            /\ calls[k].transport = "ok" => calls[k].state = "resolved"
            /\ calls[k].transport = "failed" => calls[k].state = "rejected"

\* C8: once the transport's connect has settled and the executor of
\* connect() has run on, the promise connect() returned is settled: resolved
\* when the transport's connect succeeded, rejected when it failed, in both
\* hubs.
C8_ConnectFailurePropagates == ConnectSettles(connects) /\ ConnectSettles(hubConnects)

(* ---------------- C9 ---------------- *)
WaitByTypeContract(table, cbs, proms, cbsN, promsN, device) ==
    /\ \A deviceType \in AttachTypes :
          (WaitTypeStep /\ last'.key = deviceType) =>
              LET k == Len(promsN)
              IN  IF \E p \in PortIds : table[p] # Absent /\ table[p].type = deviceType
                  THEN /\ promsN[k].state = "resolved"
                       /\ promsN[k].value \in {table[p] : p \in PortIds} \ {Absent}
                       /\ promsN[k].value.type = deviceType
                       /\ cbsN = cbs
                  ELSE /\ promsN[k].state = "pending"
                       /\ cbsN = Append(cbs, [promise |-> k, kind |-> "type",
                                              key |-> deviceType])
    /\ \A k \in DOMAIN proms :
          (proms[k].kind = "type" /\ proms[k].state = "pending") =>
              IF AttachStep /\ device.type = proms[k].key
              THEN promsN[k].state = "resolved" /\ promsN[k].value = device
              ELSE promsN[k].state = "pending"
    /\ \A k \in DOMAIN proms :
          (proms[k].kind = "type" /\ proms[k].state = "resolved") =>
              promsN[k].state = "resolved" /\ promsN[k].value = proms[k].value

\* C9: waitForDeviceByType(t) resolves at once with an attached device of
\* type t and registers no waiter when one is attached, or else stays
\* pending across attaches of devices of other types, resolves with the
\* first device of type t attached afterwards, and never changes again, in
\* both hubs.
C9_WaitByTypeResolvesOnce ==
    [][/\ WaitByTypeContract(attachedDevices, attachCallbacks, promises,
                             attachCallbacks', promises', last'.device)
       /\ WaitByTypeContract(hubAttachedDevices, hubAttachCallbacks, hubPromises,
                             hubAttachCallbacks', hubPromises', last'.hubDevice)]_vars

\* a wait by type was offered a device of another type, stayed pending, and
\* has been resolved by the attach that just ran, in both hubs
C9_Witness ==
    /\ last.op = "attach"
    /\ \E k \in DOMAIN promises :
          /\ promises[k].kind = "type"
          /\ promises[k].offered = 2
          /\ promises[k].state = "resolved"
          /\ promises[k].value = last.device
          /\ hubPromises[k].kind = "type"
          /\ hubPromises[k].offered = 2
          /\ hubPromises[k].state = "resolved"
          /\ hubPromises[k].value = last.hubDevice

(* ---------------- C10 ---------------- *)
CreateContract(registry, deviceType, portId, device) ==
    /\ device # Absent
    /\ IF deviceType \notin DOMAIN registry
       THEN /\ device.class = "Device"
            /\ device.portId = portId
            /\ device.type = deviceType
            /\ device.modeMap = Undefined
       ELSE /\ device.class = registry[deviceType]
            /\ device.portId = portId

\* C10: _createDevice(deviceType, portId) returns, for a code outside the
\* hub's decoder registry, a generic Device with the given portId and
\* deviceType and no mode map, and for a registered code the decoder
\* registered for that code on the given portId, in both hubs.
C10_CreateDeviceTotal ==
    created.done =>
        /\ CreateContract(BaseHubDeviceConstructors, created.deviceType,
                          created.portId, created.device)
        /\ CreateContract(HubDeviceConstructors, created.deviceType,
                          created.portId, created.hubDevice)

\* _createDevice has run on a device type code no decoder is registered for
C10_Witness ==
    /\ created.done
    /\ created.deviceType \in UnregisteredTypes
    /\ created.device.class = "Device"
    /\ created.hubDevice.class = "Device"

(* ---------------- C11 ---------------- *)
\* an attach on an occupied port emits "detach" for the former occupant,
\* gone from the table, and then "attach" for the new device
FormerDetachedFirst(table, device, former, emits) ==
    former # Absent =>
        /\ Len(emits) = 2
        /\ emits[1].name = "detach"
        /\ emits[1].device = former
        /\ emits[1].atPort = Absent
        /\ emits[2].name = "attach"
        /\ emits[2].device = device
        /\ table[device.portId] = device

\* C11 as claimed: when _attachDevice runs for a portId that holds a
\* Device, the former occupant is removed and a "detach" event is emitted
\* for it before the new device is inserted and its "attach" event emitted.
C11_FormerOccupantDetached ==
    last.op = "attach" =>
        /\ FormerDetachedFirst(attachedDevices, last.device, last.former, last.emits)
        /\ FormerDetachedFirst(hubAttachedDevices, last.hubDevice, last.hubFormer,
                               last.hubEmits)

FormerReplaced(table, device, former, emits) ==
    former # Absent =>
        /\ Len(emits) = 1
        /\ emits[1].name = "attach"
        /\ emits[1].device = device
        /\ table[device.portId] = device
        /\ \A i \in 1..Len(GetDevices(table)) : GetDevices(table)[i] # former

\* C11 as amended: when _attachDevice runs for a portId that holds a Device,
\* the former occupant is replaced in the table by the new device and only
\* the "attach" event of the new device is emitted, no "detach" event, in
\* both hubs.
C11_FormerOccupantReplaced ==
    last.op = "attach" =>
        /\ FormerReplaced(attachedDevices, last.device, last.former, last.emits)
        /\ FormerReplaced(hubAttachedDevices, last.hubDevice, last.hubFormer,
                          last.hubEmits)

\* an attach has just run on a port that held a Device
C11_Witness ==
    /\ last.op = "attach"
    /\ last.former # Absent
    /\ last.hubFormer # Absent

(* ---------------- C19 ---------------- *)
\* insert, then emit "attach", then scan: the event finds the device in the
\* table and no wait resolved with it yet
AttachOrder(device, emits, proms) ==
    /\ Len(emits) = 1
    /\ emits[1].name = "attach"
    /\ emits[1].device = device
    /\ emits[1].atPort = device
    /\ \A k \in emits[1].resolved : proms[k].value # device

C19_Order ==
    last.op = "attach" =>
        /\ AttachOrder(last.device, last.emits, promises)
        /\ AttachOrder(last.hubDevice, last.hubEmits, hubPromises)

\* C19: in one _attachDevice call the device is inserted, then "attach" is
\* emitted, then the waiters are scanned, so that a listener of "attach"
\* gets the device from getDeviceAtPort for its port name and from
\* getDevices, and no waiter is resolved before the event, in both hubs.
C19_InsertEmitScan ==
    last.op = "attach" =>
        /\ AttachOrder(last.device, last.emits, promises)
        /\ AttachOrder(last.hubDevice, last.hubEmits, hubPromises)
        /\ BaseHubPortExists(DevicePortName(last.device))
        /\ HubPortExists(DevicePortName(last.hubDevice))

(* ---------------- C20 ---------------- *)
UnknownPortRejected(table, cbs, tableN, cbsN, promsN) ==
    \A portName \in PortNames \ DOMAIN PortMap :
        (WaitPortStep /\ last'.key = portName) =>
            /\ promsN[Len(promsN)].state = "rejected"
            /\ promsN[Len(promsN)].reason = PortNotFound
            /\ cbsN = cbs
            /\ tableN = table

\* C20: waitForDeviceAtPort(portName) with a portName that is no key of the
\* portMap rejects the returned promise with the port-not-found error and
\* registers no waiter: the pending list and the table are unchanged, in
\* both hubs.
C20_UnknownPortRejected ==
    [][/\ UnknownPortRejected(attachedDevices, attachCallbacks, attachedDevices',
                              attachCallbacks', promises')
       /\ UnknownPortRejected(hubAttachedDevices, hubAttachCallbacks,
                              hubAttachedDevices', hubAttachCallbacks',
                              hubPromises')]_vars

\* a wait for a port the hub does not have has just been rejected
C20_Witness ==
    /\ last.op = "waitForDeviceAtPort"
    /\ last.key \notin DOMAIN PortMap
    /\ promises[Len(promises)].state = "rejected"
    /\ hubPromises[Len(hubPromises)].state = "rejected"

(* ---------------- which call of receive has run ---------------- *)
\* receive of the colour sensor has run in the given mode, autoParse off
ColorSensorReceived(mode) ==
    /\ received.done
    /\ received.decoder = "DuploTrainBaseColorSensor"
    /\ ~received.autoParse
    /\ received.mode = mode

RGBMessage(r, g, b) == Header \o LE16(r) \o LE16(g) \o LE16(b)

(* ---------------- C12 ---------------- *)
\* C12: DuploTrainBaseColorSensor.receive in COLOR mode with autoParse off,
\* for every value b of byte 4 in 0..255: exactly one "color" event with
\* payload {color: b} is emitted when b <= 10, and no event when b > 10.
C12_ColorUpToTen ==
    \A b \in 0..255 :
        (ColorSensorReceived(COLOR) /\ received.message = Header \o <<b>>) =>
            /\ ~received.result.threw
            /\ b <= 10 =>
                 received.result.events = <<Notify("color", [color |-> b])>>
            /\ b > 10 => received.result.events = <<>>

\* colour code 10, the last one reported, has been received
C12_Witness ==
    /\ ColorSensorReceived(COLOR)
    /\ received.message = Header \o <<10>>
    /\ Len(received.result.events) = 1

(* ---------------- C13 ---------------- *)
\* C13: DuploTrainBaseColorSensor.receive in RGB mode (autoParse off), for
\* every triple of unsigned 16-bit little-endian values (r, g, b) at
\* offsets 4-5, 6-7 and 8-9: exactly one "rgb" event is emitted, with
\* {red: floor(r/4), green: floor(g/4), blue: floor(b/4)}.
C13_RGBDividedByFour ==
    \A r \in RawValues, g \in RawValues, b \in RawValues :
        (ColorSensorReceived(RGB) /\ received.message = RGBMessage(r, g, b)) =>
            /\ ~received.result.threw
            /\ received.result.events =
                   <<Notify("rgb", [red |-> r \div 4, green |-> g \div 4,
                                    blue |-> b \div 4])>>

\* raw (400, 800, 1200) has been received and reported as (100, 200, 300)
C13_Witness ==
    /\ ColorSensorReceived(RGB)
    /\ received.message = RGBMessage(400, 800, 1200)
    /\ received.result.events =
           <<Notify("rgb", [red |-> 100, green |-> 200, blue |-> 300])>>

(* ---------------- C14 ---------------- *)
Channels(payload) == {payload.red, payload.green, payload.blue}

\* C14: in RGB mode every emitted channel value (red, green, blue) lies in
\* 0..255, for every unsigned 16-bit raw value.
C14_ChannelsEightBit ==
    ColorSensorReceived(RGB) =>
        \A i \in 1..Len(received.result.events) :
            Channels(received.result.events[i].payload) \subseteq 0..255

\* C14, as amended: in RGB mode every emitted channel value is floor(raw/4)
\* of its unsigned 16-bit raw value, so it lies in 0..16383, and it lies in
\* 0..255 exactly when the raw value is at most 1023.
C14_ChannelsFourteenBit ==
    \A r \in RawValues, g \in RawValues, b \in RawValues :
        (ColorSensorReceived(RGB) /\ received.message = RGBMessage(r, g, b)) =>
            /\ Len(received.result.events) = 1
            /\ LET p == received.result.events[1].payload
               IN  /\ Channels(p) \subseteq 0..16383
                   /\ p.red <= 255 <=> r <= 1023
                   /\ p.green <= 255 <=> g <= 1023
                   /\ p.blue <= 255 <=> b <= 1023

\* a raw value of 65535 has been reported as channel value 16383
C14_Witness ==
    /\ ColorSensorReceived(RGB)
    /\ Len(received.result.events) = 1
    /\ received.result.events[1].payload.red = 16383

(* ---------------- C15 ---------------- *)
\* receive of the voltage sensor has run in VOLTAGE mode on a non-WeDo2 hub
\* with a message that holds the raw value
VoltageReceived(rawValue) ==
    /\ received.done
    /\ received.decoder = "VoltageSensor"
    /\ received.mode = VOLTAGE
    /\ ~IsWeDo2SmartHub(received.hubType)
    /\ received.message = Header \o LE16(rawValue)

\* C15: VoltageSensor.receive in VOLTAGE mode on a non-WeDo2 hub: for every
\* hub type both scaling constants are defined when the voltage is computed,
\* and for every hub type that is in neither scaling table the constants are
\* those of the UNKNOWN row of both tables, so that the emitted voltage is
\* rawValue * 9.615 / 3893, rawValue being the unsigned 16-bit little-endian
\* value at offset 4.
C15_VoltageFallsBackToUnknown ==
    \A rawValue \in RawValues :
        VoltageReceived(rawValue) =>
            /\ ~received.result.threw
            /\ Len(received.result.events) = 1
            /\ received.result.events[1].name = "voltage"
            /\ received.result.events[1].payload.type = "number"
            /\ received.hubType \notin (DOMAIN MaxVoltageValue \cup DOMAIN MaxVoltageRaw)
                   => received.result.events[1].payload
                          = Ratio(rawValue * 9615, 3893 * 1000)

\* a hub type in neither table has reported raw 400 as 400 * 9.615 / 3893
C15_Witness ==
    /\ VoltageReceived(400)
    /\ received.hubType = "MOVE_HUB"
    /\ received.result.events
           = <<EmitGlobal("voltage", Ratio(400 * 9615, 3893 * 1000))>>

(* ---------------- C16 ---------------- *)
\* receive of the remote control button has run in BUTTON_EVENTS mode
ButtonReceived ==
    /\ received.done
    /\ received.decoder = "RemoteControlButton"
    /\ received.mode = BUTTON_EVENTS

ButtonStates == {ButtonState[state] : state \in DOMAIN ButtonState}

\* C16: RemoteControlButton.receive in BUTTON_EVENTS mode emits exactly one
\* hub-level "remoteButton" event whose payload is byte 4 of the buffer
\* unmodified, and that payload is one of the button state codes UP (0x01),
\* DOWN (0xff), STOP (0x7f), RELEASED (0x00).
C16_ButtonStateEnumerated ==
    \A b \in 0..255 :
        (ButtonReceived /\ received.message = Header \o <<b>>) =>
            /\ received.result.events = <<EmitGlobal("remoteButton", Num(b))>>
            /\ b \in ButtonStates

\* C16, as amended: RemoteControlButton.receive in BUTTON_EVENTS mode emits
\* exactly one hub-level "remoteButton" event whose payload is byte 4 of the
\* buffer as read, unmodified and not validated (undefined when the buffer
\* has no byte 4): it is one of the button state codes exactly when byte 4
\* is 0x01, 0xff, 0x7f or 0x00.
C16_ButtonBytePassedThrough ==
    ButtonReceived =>
        /\ ~received.result.threw
        /\ Len(received.result.events) = 1
        /\ received.result.events[1].scope = "hub"
        /\ received.result.events[1].name = "remoteButton"
        /\ LET payload == received.result.events[1].payload
               m == received.message
           IN  /\ Len(m) >= 5 => payload = Num(m[5])
               /\ Len(m) < 5 => payload = Undef
               /\ (payload.type = "number" /\ payload.value \in ButtonStates)
                      <=> (Len(m) >= 5 /\ m[5] \in {1, 255, 127, 0})

\* a byte that is no button state code has been passed through
C16_Witness ==
    /\ ButtonReceived
    /\ received.message = Header \o <<2>>
    /\ received.result.events = <<EmitGlobal("remoteButton", Num(2))>>

(* ---------------- C17 ---------------- *)
\* the device's current mode is none of the modes its decoder recognises
UnrecognisedMode ==
    \/ /\ received.decoder = "DuploTrainBaseColorSensor"
       /\ ~received.autoParse
       /\ received.mode \notin {COLOR, REFLECTIVITY, RGB}
    \/ /\ received.decoder = "VoltageSensor"
       /\ received.mode # VOLTAGE
    \/ /\ received.decoder = "RemoteControlButton"
       /\ received.mode # BUTTON_EVENTS

\* C17: for each decoder, receive called while the device's mode is not one
\* the decoder recognises emits no event, raises no error and changes no
\* state, for every buffer (the colour sensor with autoParse off).
C17_UnrecognisedModeIgnored ==
    [][(~received.done /\ UnrecognisedMode) =>
           /\ received'.result = Returned(<<>>)
           /\ received'.mode = received.mode
           /\ received' = [received EXCEPT !.done = TRUE]]_vars

\* a decoder has been handed a whole message in a mode it does not know
C17_Witness ==
    /\ received.done
    /\ UnrecognisedMode
    /\ received.mode = 1
    /\ received.message = RGBMessage(400, 800, 1200)

(* ---------------- C18 ---------------- *)
\* the number of bytes the decoder reads in the mode, 0 in a mode it ignores
BytesRead(decoder, mode, hubType) ==
    CASE decoder = "DuploTrainBaseColorSensor" /\ mode \in {COLOR, REFLECTIVITY} -> 5
      [] decoder = "DuploTrainBaseColorSensor" /\ mode = RGB -> 10
      [] decoder = "VoltageSensor" /\ mode = VOLTAGE ->
             IF IsWeDo2SmartHub(hubType) THEN 4 ELSE 6
      [] decoder = "RemoteControlButton" /\ mode = BUTTON_EVENTS -> 5
      [] OTHER -> 0

\* C18: receive tolerates truncated buffers by doing nothing: for every
\* decoder, every mode and every buffer shorter than the offsets the mode
\* reads (fewer than 10 bytes in RGB mode, fewer than 6 in VOLTAGE mode,
\* fewer than 5 in COLOR, REFLECTIVITY or BUTTON_EVENTS mode), receive
\* raises no error to its caller and emits no event.
C18_TruncatedIgnored ==
    (/\ received.done
     /\ ~received.autoParse
     /\ Len(received.message) <
            BytesRead(received.decoder, received.mode, received.hubType)) =>
        /\ ~received.result.threw
        /\ received.result.events = <<>>

(* ---------------- C21 ---------------- *)
\* the port ids of the portMap are pairwise distinct
DistinctIds(portMap) ==
    \A m \in DOMAIN portMap.ids, n \in DOMAIN portMap.ids :
        portMap.ids[m] = portMap.ids[n] => m = n

\* getPortNameForPortId inverts the portMap, in both hubs
C21_RoundTrip ==
    (lookup.done /\ DistinctIds(lookup.portMap)) =>
        /\ \A name \in DOMAIN lookup.portMap.ids :
               lookup.portMap.ids[name] = lookup.portId =>
                   /\ lookup.portName = name
                   /\ lookup.hubPortName = name
        /\ (\A name \in DOMAIN lookup.portMap.ids :
                lookup.portMap.ids[name] # lookup.portId) =>
               /\ lookup.portName = Undefined
               /\ lookup.hubPortName = Undefined

\* C21: getPortNameForPortId is the reverse lookup of the portMap: for every
\* portMap with pairwise distinct port ids and every name in it,
\* getPortNameForPortId(portMap[name]) = name, also for a name mapped to
\* portId 0, and getDeviceAtPort(name) returns the device whose portName is
\* name; for a portId no name maps to it returns absent. In both hubs.
C21_ReverseLookup ==
    /\ C21_RoundTrip
    /\ (lookup.done /\ DistinctIds(lookup.portMap)) =>
           \A name \in DOMAIN lookup.portMap.ids :
               lookup.portMap.ids[name] = lookup.portId =>
                   /\ lookup.found =
                          [err |-> FALSE,
                           device |-> NewGenericDevice("UNKNOWN", lookup.portId, 1)]
                   /\ lookup.hubFound = lookup.found

(* ---------------- C22 ---------------- *)
\* the callbacks of the list that the device does not satisfy, in list order
Unsatisfied(cbs, device) == SelectSeq(cbs, LAMBDA callback : ~Matches(callback, device))

\* C22: the attach scan of BaseHub removes only satisfied waiters and keeps
\* the rest intact: after _attachDevice the pending list is exactly the
\* subsequence of the previous list whose predicates do not match the
\* attached device, in their registration order; an attach that matches no
\* pending waiter leaves the list unchanged.
C22_ScanRemovesOnlySatisfied ==
    [][AttachStep =>
           /\ attachCallbacks' = Unsatisfied(attachCallbacks, last'.device)
           /\ (\A i \in 1..Len(attachCallbacks) :
                   ~Matches(attachCallbacks[i], last'.device))
                  => attachCallbacks' = attachCallbacks]_vars

\* an attach has just satisfied two waiters, both gone from the list, or
\* satisfied one and kept another
C22_Witness ==
    /\ last.op = "attach"
    /\ Len(promises) = MaxWaits
    /\ promises[1].value = last.device
    /\ \/ promises[2].value = last.device /\ attachCallbacks = <<>>
       \/ promises[2].state = "pending" /\ Len(attachCallbacks) = 1

(* ---------------- C23 ---------------- *)
DisconnectStep == last'.op = "disconnect" /\ bleDevice.connected /\ ~bleDevice'.connected

\* C23: a transport "disconnect" notification makes the hub emit exactly one
\* hub-level "disconnect" event and changes nothing else: the table of
\* attached devices and the pending list are unchanged, so getDeviceAtPort
\* and getDevices still return what they returned before and pending waits
\* stay pending, in both hubs.
C23_DisconnectOnlyEmits ==
    [][DisconnectStep =>
           /\ last'.emits = <<EmitDisconnect>>
           /\ last'.hubEmits = <<EmitDisconnect>>
           /\ attachedDevices' = attachedDevices
           /\ hubAttachedDevices' = hubAttachedDevices
           /\ attachCallbacks' = attachCallbacks
           /\ hubAttachCallbacks' = hubAttachCallbacks
           /\ promises' = promises
           /\ hubPromises' = hubPromises
           /\ \A portName \in PortNames :
                  /\ BaseHubGetDeviceAtPort(attachedDevices', portName)
                         = BaseHubGetDeviceAtPort(attachedDevices, portName)
                  /\ HubGetDeviceAtPort(hubAttachedDevices', portName)
                         = HubGetDeviceAtPort(hubAttachedDevices, portName)
           /\ GetDevices(attachedDevices') = GetDevices(attachedDevices)
           /\ GetDevices(hubAttachedDevices') = GetDevices(hubAttachedDevices)]_vars

\* the hub has just disconnected with a device attached and a wait pending
C23_Witness ==
    /\ last.op = "disconnect"
    /\ GetDevices(attachedDevices) # <<>>
    /\ GetDevices(hubAttachedDevices) # <<>>
    /\ \E k \in DOMAIN promises : promises[k].state = "pending"
    /\ \E k \in DOMAIN hubPromises : hubPromises[k].state = "pending"

(* ---------------- C24 ---------------- *)
\* the voltage emitted for the raw value when the constants are those of
\* the row of hub type `row` in both tables
RowVoltage(rawValue, row) ==
    Ratio(rawValue * MaxVoltageValue[row], MaxVoltageRaw[row] * 1000)

\* C24: the two constants used for one voltage computation always come from
\* the same row: for every hub type the pair (maxVoltageValue, maxVoltageRaw)
\* is either the hub type's own pair or the UNKNOWN pair (9.615, 3893),
\* never the value of one row with the raw maximum of another.
C24_ConstantsFromOneRow ==
    \A rawValue \in RawValues :
        VoltageReceived(rawValue) =>
            /\ Len(received.result.events) = 1
            /\ received.result.events[1].payload \in
                   {RowVoltage(rawValue, row) :
                        row \in {"UNKNOWN"} \cup
                            ({received.hubType} \cap DOMAIN MaxVoltageValue
                                                \cap DOMAIN MaxVoltageRaw)}

\* C24, as amended: each of the two constants is looked up on its own: it is
\* the hub type's entry in its table, or that table's UNKNOWN entry when the
\* table has none. The pair is the hub type's own pair for DUPLO_TRAIN_BASE
\* and REMOTE_CONTROL, the UNKNOWN pair (9.615, 3893) for a hub type in
\* neither table, and (9.615, 4095) for TECHNIC_MEDIUM_HUB, which only the
\* table of raw maxima holds.
C24_ConstantsPerTable ==
    \A rawValue \in RawValues :
        VoltageReceived(rawValue) =>
            /\ Len(received.result.events) = 1
            /\ LET hubType == received.hubType
                   value == IF hubType \in DOMAIN MaxVoltageValue
                            THEN MaxVoltageValue[hubType] ELSE 9615
                   raw == IF hubType \in DOMAIN MaxVoltageRaw
                          THEN MaxVoltageRaw[hubType] ELSE 3893
               IN  /\ received.result.events[1].payload
                          = Ratio(rawValue * value, raw * 1000)
                   /\ hubType = "TECHNIC_MEDIUM_HUB" =>
                          received.result.events[1].payload
                              = Ratio(rawValue * 9615, 4095 * 1000)
                   /\ hubType \in {"DUPLO_TRAIN_BASE", "REMOTE_CONTROL"} =>
                          received.result.events[1].payload
                              = RowVoltage(rawValue, hubType)

\* a Technic medium hub has reported raw 400 as 400 * 9.615 / 4095
C24_Witness ==
    /\ VoltageReceived(400)
    /\ received.hubType = "TECHNIC_MEDIUM_HUB"
    /\ received.result.events
           = <<EmitGlobal("voltage", Ratio(400 * 9615, 4095 * 1000))>>

(* ---------------- C25 ---------------- *)
\* Hub and BaseHub return the same query results and errors
C25_SameQueries ==
    /\ \A portName \in PortNames :
           HubGetDeviceAtPort(hubAttachedDevices, portName)
               = BaseHubGetDeviceAtPort(attachedDevices, portName)
    /\ GetDevices(hubAttachedDevices) = GetDevices(attachedDevices)

\* Hub and BaseHub settle the same waits the same way with the same devices
C25_SameWaits ==
    /\ Len(hubPromises) = Len(promises)
    /\ \A k \in DOMAIN promises :
           /\ hubPromises[k].state = promises[k].state
           /\ hubPromises[k].value = promises[k].value
           /\ hubPromises[k].reason = promises[k].reason

\* Hub and BaseHub invoke each waiter predicate the same number of times
C25_SameInvocations ==
    \A k \in DOMAIN promises \cap DOMAIN hubPromises :
        hubPromises[k].offered = promises[k].offered

\* C25: Hub and BaseHub implement the same attach/detach/wait contract: run
\* side by side on the same portMap and the same sequence of operations,
\* they return the same query results and errors, resolve the same waits
\* with the same devices, and invoke each waiter predicate the same number
\* of times.
C25_HubEquivalentToBaseHub ==
    /\ C25_SameQueries
    /\ C25_SameWaits
    /\ C25_SameInvocations

====
